---- MODULE Spec2Model ----
(***************************************************************************)
(* Model of the VR buzz-wire game: the BuzzWireGame object                 *)
(* (PythonServer/buzz_wire_game.py) and the Flask handlers that drive the  *)
(* one module-global instance (PythonServer/server.py).                    *)
(*                                                                         *)
(* Units.  Lengths are integers in units of 0.05 m (every track            *)
(* coordinate of _define_track is a multiple of 0.05 m).  Clock readings   *)
(* are integers in units of 0.25 s.  A distance is kept exact as the pair  *)
(* <<n, d>> standing for sqrt(n/d); <<1, 0>> is float('inf') and <<-1, 1>> *)
(* is the literal -1.0.  Comparing two distances compares n/d, which is    *)
(* what comparing the square roots does.                                   *)
(***************************************************************************)
EXTENDS Integers, Sequences, FiniteSets, TLC

(***************************************************************************)
(* Bounds of the model.                                                    *)
(***************************************************************************)
MaxClock == 6
MaxDrift == 1
GridMax == 2
MaxRequests == 3

(***************************************************************************)
(* Program constants, in model units.                                      *)
(***************************************************************************)
DefaultThreshold == 1
ZoneRadius == 2
cooldown == 2
DegenerateEps == 1
CentisPerTick == 25

(***************************************************************************)
(* The same 1e-10 m^2 on a grid of 0.000005 m, where it is 4 squared       *)
(* units: there a segment can be shorter than the threshold without its    *)
(* end points coinciding.                                                  *)
(***************************************************************************)
FineEps == 4

(***************************************************************************)
(* The clock reading at which the first of the overlapping requests        *)
(* arrives: the earliest one at which line 163 lets a collision count.     *)
(***************************************************************************)
FirstRequestAt == cooldown + 1

OtherThreshold == DefaultThreshold + 1
Thresholds == {DefaultThreshold, OtherThreshold}

Origin == <<0, 0, 0>>
Inf == <<1, 0>>
MinusOne == <<-1, 1>>

(***************************************************************************)
(* Exact arithmetic on distances.                                          *)
(***************************************************************************)
Abs(n) == IF n < 0 THEN -n ELSE n

RECURSIVE Gcd(_, _)
Gcd(a, b) == IF b = 0 THEN a ELSE Gcd(b, a % b)

Sqrt(n, d) ==
    LET g == Gcd(Abs(n), d)
    IN  IF g = 0 THEN <<n, d>> ELSE <<n \div g, d \div g>>

Less(x, y) == x[1] * y[2] < y[1] * x[2]

Min(x, y) == IF Less(y, x) THEN y ELSE x

Dot(a, b) == a[1] * b[1] + a[2] * b[2] + a[3] * b[3]

Sub(a, b) == <<a[1] - b[1], a[2] - b[2], a[3] - b[3]>>

(***************************************************************************)
(* BuzzWireGame._define_track                                              *)
(***************************************************************************)
_define_track ==
    << <<-10, 20, 0>>,
       <<-6, 22, 0>>, <<-2, 24, 1>>,
       <<0, 23, 2>>, <<2, 25, 1>>, <<4, 22, 0>>,
       <<6, 23, -2>>, <<8, 24, -3>>,
       <<10, 26, -2>>, <<11, 27, 0>>, <<10, 28, 2>>,
       <<12, 26, 2>>, <<14, 24, 1>>,
       <<16, 22, 0>> >>

(***************************************************************************)
(* BuzzWireGame._point_to_segment_distance.  The caller has checked that   *)
(* the point unpacks into three values.  eps is the literal 1e-10 of line  *)
(* 238 in the squared unit of the coordinates.                             *)
(***************************************************************************)
point_to_segment_distance_in_units(eps, point, seg_start, seg_end) ==
    LET v == Sub(seg_end, seg_start)
        w == Sub(point, seg_start)
        v_dot_v == Dot(v, v)
        w_dot_v == Dot(w, v)
    IN  IF v_dot_v < eps
        THEN Sqrt(Dot(w, w), 1)
        ELSE IF w_dot_v <= 0
             THEN Sqrt(Dot(w, w), 1)
             ELSE IF w_dot_v >= v_dot_v
                  THEN Sqrt(Dot(Sub(point, seg_end), Sub(point, seg_end)), 1)
                  ELSE Sqrt(Dot(w, w) * v_dot_v - w_dot_v * w_dot_v, v_dot_v)

_point_to_segment_distance(point, seg_start, seg_end) ==
    point_to_segment_distance_in_units(DegenerateEps, point, seg_start, seg_end)

(***************************************************************************)
(* BuzzWireGame._calculate_min_distance_to_track                           *)
(***************************************************************************)
RECURSIVE MinOverSegments(_, _, _)
MinOverSegments(track, point, i) ==
    IF i >= Len(track)
    THEN Inf
    ELSE LET rest == MinOverSegments(track, point, i + 1)
             distance == _point_to_segment_distance(point, track[i], track[i + 1])
         IN  IF Less(rest, distance) THEN rest ELSE distance

(***************************************************************************)
(* The loop above on the track of _define_track, tabulated once for the    *)
(* points the inputs below are built from.                                 *)
(***************************************************************************)
TabulatedPoints ==
    {<<-10, 20, 0>>, <<-10, 20, 1>>, <<-10, 20, 2>>, <<-4, 23, 0>>,
     <<0, 10, 0>>, <<16, 22, 0>>, <<16, 22, -1>>, <<0, 0, 0>>}

TrackDistance == [p \in TabulatedPoints |-> MinOverSegments(_define_track, p, 1)]

_calculate_min_distance_to_track(self, point) ==
    IF self.track_points = _define_track /\ point \in TabulatedPoints
    THEN TrackDistance[point]
    ELSE MinOverSegments(self.track_points, point, 1)

(***************************************************************************)
(* BuzzWireGame._is_in_zone: sqrt(dx^2 + dy^2 + dz^2) < zone_radius.  It   *)
(* indexes position[0..2], so the caller has checked Len(position) >= 3.   *)
(* The faulty variant takes the boundary of the zone as inside.            *)
(***************************************************************************)
_is_in_zone_or_on_boundary(self, position, zone_center) ==
    LET dx == position[1] - zone_center[1]
        dy == position[2] - zone_center[2]
        dz == position[3] - zone_center[3]
    IN  ~Less(Sqrt(self.zone_radius * self.zone_radius, 1),
              Sqrt(dx * dx + dy * dy + dz * dz, 1))

_is_in_zone(self, position, zone_center) ==
    LET dx == position[1] - zone_center[1]
        dy == position[2] - zone_center[2]
        dz == position[3] - zone_center[3]
    IN  Less(Sqrt(dx * dx + dy * dy + dz * dz, 1),
             Sqrt(self.zone_radius * self.zone_radius, 1))

(***************************************************************************)
(* State.  The first thirteen variables are the fields of the one          *)
(* BuzzWireGame instance; game tells whether server.py's module global     *)
(* holds it ("BuzzWireGame") or None.  now is the reading time.time()      *)
(* gives.  call records the last step (an operation with its input and the *)
(* phase it was invoked in, or a tick of the clock), ret the value the     *)
(* last method call returned or the exception it raised, response the last *)
(* HTTP response.                                                          *)
(* counted_at is a history variable: the clock reading of the latest       *)
(* update of this session that incremented collision_count.                *)
(* threads holds the request threads of the server, each with the          *)
(* statement it is about to execute and its local variables; it is empty   *)
(* where requests are taken one after the other.                           *)
(***************************************************************************)
VARIABLES collision_threshold, track_points, start_zone, end_zone, zone_radius,
          game_started, game_completed, timing_started, start_time,
          elapsed_time, collision_count, is_colliding, last_collision_time,
          game, now, call, ret, response, counted_at, threads

trackVars == <<collision_threshold, track_points, start_zone, end_zone, zone_radius>>
sessionVars == <<game_started, game_completed, timing_started, start_time,
                 elapsed_time, collision_count, is_colliding, last_collision_time>>
vars == <<trackVars, sessionVars, game, now, call, ret, response, counted_at,
          threads>>

None == <<>>

NoThreads == <<>>

Self ==
    [collision_threshold |-> collision_threshold,
     track_points |-> track_points,
     start_zone |-> start_zone,
     end_zone |-> end_zone,
     zone_radius |-> zone_radius,
     game_started |-> game_started,
     game_completed |-> game_completed,
     timing_started |-> timing_started,
     start_time |-> start_time,
     elapsed_time |-> elapsed_time,
     collision_count |-> collision_count,
     is_colliding |-> is_colliding,
     last_collision_time |-> last_collision_time]

IsSelf(self) ==
    /\ collision_threshold = self.collision_threshold
    /\ track_points = self.track_points
    /\ start_zone = self.start_zone
    /\ end_zone = self.end_zone
    /\ zone_radius = self.zone_radius
    /\ game_started = self.game_started
    /\ game_completed = self.game_completed
    /\ timing_started = self.timing_started
    /\ start_time = self.start_time
    /\ elapsed_time = self.elapsed_time
    /\ collision_count = self.collision_count
    /\ is_colliding = self.is_colliding
    /\ last_collision_time = self.last_collision_time

SetSelf(self) ==
    /\ collision_threshold' = self.collision_threshold
    /\ track_points' = self.track_points
    /\ start_zone' = self.start_zone
    /\ end_zone' = self.end_zone
    /\ zone_radius' = self.zone_radius
    /\ game_started' = self.game_started
    /\ game_completed' = self.game_completed
    /\ timing_started' = self.timing_started
    /\ start_time' = self.start_time
    /\ elapsed_time' = self.elapsed_time
    /\ collision_count' = self.collision_count
    /\ is_colliding' = self.is_colliding
    /\ last_collision_time' = self.last_collision_time

(***************************************************************************)
(* BuzzWireGame.reset, and three faulty variants: one that leaves          *)
(* game_completed alone, one that leaves last_collision_time alone, one    *)
(* that leaves both the collision flag and last_collision_time alone.      *)
(***************************************************************************)
reset_keeps_completed(self) ==
    [self EXCEPT !.game_started = FALSE,
                 !.timing_started = FALSE,
                 !.start_time = None,
                 !.elapsed_time = 0,
                 !.collision_count = 0,
                 !.is_colliding = FALSE,
                 !.last_collision_time = 0]

reset_keeps_last_collision_time(self) ==
    [self EXCEPT !.game_started = FALSE,
                 !.game_completed = FALSE,
                 !.timing_started = FALSE,
                 !.start_time = None,
                 !.elapsed_time = 0,
                 !.collision_count = 0,
                 !.is_colliding = FALSE]

reset_keeps_collision(self) ==
    [self EXCEPT !.game_started = FALSE,
                 !.game_completed = FALSE,
                 !.timing_started = FALSE,
                 !.start_time = None,
                 !.elapsed_time = 0,
                 !.collision_count = 0]

reset(self) ==
    [self EXCEPT !.game_started = FALSE,
                 !.game_completed = FALSE,
                 !.timing_started = FALSE,
                 !.start_time = None,
                 !.elapsed_time = 0,
                 !.collision_count = 0,
                 !.is_colliding = FALSE,
                 !.last_collision_time = 0]

(***************************************************************************)
(* BuzzWireGame.__init__                                                   *)
(***************************************************************************)
__init__(threshold) ==
    LET track == _define_track
    IN  reset([collision_threshold |-> threshold,
               track_points |-> track,
               start_zone |-> track[1],
               end_zone |-> track[Len(track)],
               zone_radius |-> ZoneRadius,
               game_started |-> FALSE,
               game_completed |-> FALSE,
               timing_started |-> FALSE,
               start_time |-> None,
               elapsed_time |-> 0,
               collision_count |-> 0,
               is_colliding |-> FALSE,
               last_collision_time |-> 0])

(***************************************************************************)
(* BuzzWireGame.start_game                                                 *)
(***************************************************************************)
start_game(self) ==
    [reset(self) EXCEPT !.game_started = TRUE,
                        !.timing_started = FALSE,
                        !.start_time = None]

(***************************************************************************)
(* BuzzWireGame.get_state.  round(elapsed_time, 2) turns clock units into  *)
(* hundredths of a second; the distance is kept exact.  The faulty variant *)
(* reports game_started under the key timing_started.                      *)
(***************************************************************************)
get_state_timing_from_started(self, distance) ==
    [kind |-> "state",
     game_started |-> self.game_started,
     game_completed |-> self.game_completed,
     timing_started |-> self.game_started,
     elapsed_time |-> CentisPerTick * self.elapsed_time,
     collision_count |-> self.collision_count,
     is_colliding |-> self.is_colliding,
     distance_to_track |-> IF distance[1] >= 0 THEN distance ELSE MinusOne,
     collision_threshold |-> self.collision_threshold]

get_state(self, distance) ==
    [kind |-> "state",
     game_started |-> self.game_started,
     game_completed |-> self.game_completed,
     timing_started |-> self.timing_started,
     elapsed_time |-> CentisPerTick * self.elapsed_time,
     collision_count |-> self.collision_count,
     is_colliding |-> self.is_colliding,
     distance_to_track |-> IF distance[1] >= 0 THEN distance ELSE MinusOne,
     collision_threshold |-> self.collision_threshold]

(***************************************************************************)
(* BuzzWireGame.get_track                                                  *)
(***************************************************************************)
get_track(self) ==
    [kind |-> "track",
     track_points |-> self.track_points,
     start_zone |-> self.start_zone,
     end_zone |-> self.end_zone,
     zone_radius |-> self.zone_radius,
     collision_threshold |-> self.collision_threshold]

(***************************************************************************)
(* Values a caller can pass as positions.  A JSON value is a number        *)
(* ("scalar"), a list of numbers ("flat") or a list of lists of numbers    *)
(* ("nested"); the empty list is the nested value with no point.           *)
(***************************************************************************)
Scalar == [shape |-> "scalar", flat |-> <<>>, nested |-> <<>>]
Flat(numbers) == [shape |-> "flat", flat |-> numbers, nested |-> <<>>]
Nested(points) == [shape |-> "nested", flat |-> <<>>, nested |-> points]
EmptyList == Nested(<<>>)

Raise(error) == [kind |-> "raise", error |-> error]

(***************************************************************************)
(* update, line 126: the guard of the early return, and two faulty         *)
(* variants: one lets a completed game through, one a game not started.    *)
(***************************************************************************)
early_return_unless_started(self) == ~self.game_started

early_return_when_completed(self) == self.game_completed

early_return(self) == ~self.game_started \/ self.game_completed

(***************************************************************************)
(* update, lines 130-132: a non-empty list whose first element is not a    *)
(* list is taken as one point and wrapped.                                 *)
(***************************************************************************)
normalize(positions) ==
    IF positions.shape = "flat" /\ Len(positions.flat) > 0
    THEN <<positions.flat>>
    ELSE positions.nested

(***************************************************************************)
(* update, line 135.                                                       *)
(***************************************************************************)
first_point_of(points) == IF Len(points) > 0 THEN points[1] ELSE Origin

(***************************************************************************)
(* update, line 147: if self.start_time -- None and 0.0 are both falsy.    *)
(***************************************************************************)
truthy(t) == t # None /\ t[1] # 0

(***************************************************************************)
(* update, lines 162-163: a new collision is counted on a rising edge of   *)
(* is_colliding that is more than cooldown after the last counted one.     *)
(* Faulty variants: the cooldown compared with >=, the cooldown test       *)
(* dropped, and the edge test dropped.                                     *)
(***************************************************************************)
counts_collision_at_cooldown(self, was_colliding, current_time) ==
    /\ self.is_colliding
    /\ ~was_colliding
    /\ current_time - self.last_collision_time >= cooldown

counts_collision_without_cooldown(self, was_colliding, current_time) ==
    /\ self.is_colliding
    /\ ~was_colliding

counts_collision_while_held(self, was_colliding, current_time) ==
    /\ self.is_colliding
    /\ current_time - self.last_collision_time > cooldown

counts_collision(self, was_colliding, current_time) ==
    /\ self.is_colliding
    /\ ~was_colliding
    /\ current_time - self.last_collision_time > cooldown

(***************************************************************************)
(* update, lines 151-154: the minimum over the supplied points.  The       *)
(* faulty variant measures the first point only.                           *)
(***************************************************************************)
MinOverPoints_first_only(self, points, i) ==
    IF i > Len(points)
    THEN Inf
    ELSE _calculate_min_distance_to_track(self, points[i])

RECURSIVE MinOverPoints(_, _, _)
MinOverPoints(self, points, i) ==
    IF i > Len(points)
    THEN Inf
    ELSE Min(_calculate_min_distance_to_track(self, points[i]),
             MinOverPoints(self, points, i + 1))

(***************************************************************************)
(* update, lines 146-172: the timing phase.  t1 and t2 are the two clock   *)
(* readings (lines 148 and 157).  Unpacking a point that does not have     *)
(* exactly three values raises ValueError after elapsed_time was written.  *)
(***************************************************************************)
timing_phase(self, points, first_point, t1, t2) ==
    LET timed == IF truthy(self.start_time)
                 THEN [self EXCEPT !.elapsed_time = t1 - self.start_time[1]]
                 ELSE self
    IN  IF \E i \in 1..Len(points) : Len(points[i]) # 3
        THEN [self |-> timed, ret |-> Raise("ValueError"), clock |-> t1]
        ELSE LET min_distance == MinOverPoints(timed, points, 1)
                 was_colliding == timed.is_colliding
                 flagged == [timed EXCEPT !.is_colliding =
                                Less(min_distance,
                                     Sqrt(timed.collision_threshold * timed.collision_threshold, 1))]
                 counted == IF counts_collision(flagged, was_colliding, t2)
                            THEN [flagged EXCEPT !.collision_count = @ + 1,
                                                 !.last_collision_time = t2]
                            ELSE flagged
                 final == IF _is_in_zone(counted, first_point, counted.end_zone)
                          THEN [counted EXCEPT !.game_completed = TRUE]
                          ELSE counted
             IN  [self |-> final, ret |-> get_state(final, min_distance), clock |-> t2]

(***************************************************************************)
(* update, lines 138-144: the arming phase.  _is_in_zone indexes the first *)
(* three values of the point and raises IndexError on a shorter one.       *)
(* The faulty variant misses the return of line 144 once the timer is      *)
(* armed and runs on into the timing phase.                                *)
(***************************************************************************)
arming_phase_falls_through(self, points, first_point, t1, t2) ==
    IF Len(first_point) < 3
    THEN [self |-> self, ret |-> Raise("IndexError"), clock |-> t1]
    ELSE IF _is_in_zone(self, first_point, self.start_zone)
         THEN timing_phase([self EXCEPT !.timing_started = TRUE,
                                        !.start_time = <<t1>>],
                           points, first_point, t1, t2)
         ELSE [self |-> self, ret |-> get_state(self, MinusOne), clock |-> t1]

arming_phase(self, points, first_point, t1, t2) ==
    IF Len(first_point) < 3
    THEN [self |-> self, ret |-> Raise("IndexError"), clock |-> t1]
    ELSE LET armed == IF _is_in_zone(self, first_point, self.start_zone)
                      THEN [self EXCEPT !.timing_started = TRUE,
                                        !.start_time = <<t1>>]
                      ELSE self
         IN  [self |-> armed, ret |-> get_state(armed, MinusOne), clock |-> t1]

(***************************************************************************)
(* BuzzWireGame.update.  The result holds the object after the call, the   *)
(* returned snapshot or the raised exception, and the last clock reading.  *)
(***************************************************************************)
update(self, positions, t1, t2) ==
    IF early_return(self)
    THEN [self |-> self, ret |-> get_state(self, MinusOne), clock |-> t1]
    ELSE IF positions.shape = "scalar"
         THEN [self |-> self, ret |-> Raise("TypeError"), clock |-> t1]
         ELSE LET points == normalize(positions)
                  first_point == first_point_of(points)
              IN  IF ~self.timing_started
                  THEN arming_phase(self, points, first_point, t1, t2)
                  ELSE timing_phase(self, points, first_point, t1, t2)

(***************************************************************************)
(* Inputs.  Points on the 0.05 m grid chosen around the start zone, the    *)
(* end zone and the wire, and the shapes a request can carry.              *)
(***************************************************************************)
PStart == <<-10, 20, 0>>
PStartNear == <<-10, 20, 1>>
PStartEdge == <<-10, 20, 2>>
PWire == <<-4, 23, 0>>
PFar == <<0, 10, 0>>
PEnd == <<16, 22, 0>>
PEndNear == <<16, 22, -1>>

Points == {PStart, PStartNear, PStartEdge, PWire, PEnd, PEndNear, Origin}

WellFormed ==
    {Flat(p) : p \in Points}
    \cup {Nested(<<PWire>>),
          Nested(<<PFar, PWire>>), Nested(<<PFar, PEnd>>),
          Nested(<<PEndNear, PWire>>), Nested(<<PStartNear, PWire>>)}

Malformed ==
    {EmptyList, Scalar,
     Flat(<<-10, 20>>), Flat(<<-10, 20, 0, 0>>),
     Nested(<< <<-10, 20>> >>), Nested(<<PFar, <<16, 22>> >>),
     Nested(<< <<-4, 23, 0, 0>>, PFar >>)}

PositionInputs == WellFormed \cup Malformed

(***************************************************************************)
(* The phase of the session an operation is invoked in.                    *)
(***************************************************************************)
Phase ==
    IF game = "None" THEN "none"
    ELSE IF ~game_started THEN "not_started"
    ELSE IF game_completed THEN "completed"
    ELSE IF timing_started THEN "timing"
    ELSE "armed"

Called(op, input) == [op |-> op, phase |-> Phase, input |-> input]

NoResponse == [status |-> 0, body |-> None]

(***************************************************************************)
(* Specification Spec: the methods of one BuzzWireGame, called one after   *)
(* the other in any order, and the clock advancing between calls.          *)
(***************************************************************************)
Init ==
    /\ \E threshold \in Thresholds : IsSelf(__init__(threshold))
    /\ game = "BuzzWireGame"
    /\ now = 0
    /\ call = [op |-> "__init__", phase |-> "none", input |-> None]
    /\ ret = None
    /\ response = NoResponse
    /\ counted_at = None
    /\ threads = NoThreads

Tick ==
    /\ now < MaxClock
    /\ now' = now + 1
    /\ call' = Called("tick", None)
    /\ UNCHANGED <<trackVars, sessionVars, game, ret, response, counted_at,
                 threads>>

CallInit ==
    \E threshold \in Thresholds :
        /\ SetSelf(__init__(threshold))
        /\ call' = Called("__init__", threshold)
        /\ ret' = None
        /\ counted_at' = None
        /\ UNCHANGED <<game, now, response, threads>>

CallReset ==
    /\ SetSelf(reset(Self))
    /\ call' = Called("reset", None)
    /\ ret' = None
    /\ counted_at' = None
    /\ UNCHANGED <<game, now, response, threads>>

CallStartGame ==
    /\ SetSelf(start_game(Self))
    /\ call' = Called("start_game", None)
    /\ ret' = None
    /\ counted_at' = None
    /\ UNCHANGED <<game, now, response, threads>>

CallUpdate ==
    \E positions \in PositionInputs, drift \in 0..MaxDrift :
        /\ now + drift <= MaxClock
        /\ \E result \in {update(Self, positions, now, now + drift)} :
               /\ SetSelf(result.self)
               /\ ret' = result.ret
               /\ now' = result.clock
               /\ counted_at' = IF result.self.collision_count > collision_count
                                THEN <<result.clock>>
                                ELSE counted_at
        /\ call' = Called("update", positions)
        /\ UNCHANGED <<game, response, threads>>

CallGetState ==
    /\ ret' = get_state(Self, MinusOne)
    /\ call' = Called("get_state", None)
    /\ UNCHANGED <<trackVars, sessionVars, game, now, response, counted_at,
                 threads>>

CallGetTrack ==
    /\ ret' = get_track(Self)
    /\ call' = Called("get_track", None)
    /\ UNCHANGED <<trackVars, sessionVars, game, now, response, counted_at,
                 threads>>

Next ==
    \/ Tick
    \/ CallInit
    \/ CallReset
    \/ CallStartGame
    \/ CallUpdate
    \/ CallGetState
    \/ CallGetTrack

Spec == Init /\ [][Next]_vars

(***************************************************************************)
(* server.py.  The fields of the instance are meaningless while the global *)
(* game is None; the model keeps them at the values below.                 *)
(***************************************************************************)
NoInstance ==
    [collision_threshold |-> 0,
     track_points |-> <<>>,
     start_zone |-> <<>>,
     end_zone |-> <<>>,
     zone_radius |-> 0,
     game_started |-> FALSE,
     game_completed |-> FALSE,
     timing_started |-> FALSE,
     start_time |-> None,
     elapsed_time |-> 0,
     collision_count |-> 0,
     is_colliding |-> FALSE,
     last_collision_time |-> 0]

(***************************************************************************)
(* Bodies of a POST /update request: no JSON at all, or a JSON object with *)
(* the key "positions", the key "position", or neither.                    *)
(***************************************************************************)
NoJson == [key |-> "nojson", value |-> EmptyList]
NoKey == [key |-> "absent", value |-> EmptyList]

SinglePositions ==
    {Flat(p) : p \in {PStart, PWire, PEnd}}
    \cup {Scalar, EmptyList, Flat(<<-10, 20>>), Flat(<<16, 22, 0, 0>>),
          Nested(<<PStart>>)}

Bodies ==
    {NoJson, NoKey}
    \cup {[key |-> "positions", value |-> v] : v \in PositionInputs}
    \cup {[key |-> "position", value |-> v] : v \in SinglePositions}

Respond(status, body) == [status |-> status, body |-> body]

Error(message) == [kind |-> "error", error |-> message]

(***************************************************************************)
(* update_game, lines 90-99: the positions handed to game.update.  A       *)
(* "position" that is not a list of length 3 is replaced by the origin.    *)
(***************************************************************************)
positions_of(data) ==
    IF data.key = "positions"
    THEN data.value
    ELSE LET position == IF data.key = "position" THEN data.value ELSE Flat(Origin)
         IN  IF position.shape = "flat" /\ Len(position.flat) = 3
             THEN Nested(<<position.flat>>)
             ELSE Nested(<<Origin>>)

ServerInit ==
    /\ IsSelf(NoInstance)
    /\ game = "None"
    /\ now = 0
    /\ call = [op |-> "boot", phase |-> "none", input |-> None]
    /\ ret = None
    /\ response = NoResponse
    /\ counted_at = None
    /\ threads = NoThreads

(***************************************************************************)
(* POST /start: start_game of server.py.                                   *)
(***************************************************************************)
server_start_game ==
    \E threshold \in Thresholds :
        \E started \in {start_game(__init__(threshold))} :
            /\ game' = "BuzzWireGame"
            /\ SetSelf(started)
            /\ ret' = get_track(started)
            /\ response' = Respond(200, [kind |-> "start",
                                         state |-> get_state(started, MinusOne),
                                         track |-> get_track(started)])
            /\ call' = Called("POST /start", threshold)
            /\ counted_at' = None
            /\ UNCHANGED <<now, threads>>

(***************************************************************************)
(* POST /update: update_game.  An exception of game.update is caught and   *)
(* answered with status 500; what update wrote before raising stays.       *)
(***************************************************************************)
update_game ==
    \E data \in Bodies, drift \in 0..MaxDrift :
        /\ now + drift <= MaxClock
        /\ call' = Called("POST /update", data)
        /\ UNCHANGED threads
        /\ IF game = "None"
           THEN /\ response' = Respond(400, Error("Game not started"))
                /\ UNCHANGED <<trackVars, sessionVars, game, now, ret, counted_at>>
           ELSE IF data = NoJson
           THEN /\ response' = Respond(400, Error("No JSON data received"))
                /\ UNCHANGED <<trackVars, sessionVars, game, now, ret, counted_at>>
           ELSE \E result \in {update(Self, positions_of(data), now, now + drift)} :
                /\ SetSelf(result.self)
                /\ ret' = result.ret
                /\ now' = result.clock
                /\ counted_at' = IF result.self.collision_count > collision_count
                                 THEN <<result.clock>>
                                 ELSE counted_at
                /\ response' = IF result.ret.kind = "raise"
                               THEN Respond(500, Error(result.ret.error))
                               ELSE Respond(200, result.ret)
                /\ UNCHANGED game

(***************************************************************************)
(* GET /track: get_track of server.py, and a faulty variant that keeps the *)
(* temporary instance in the global.                                       *)
(***************************************************************************)
server_get_track_keeps_instance ==
    /\ call' = Called("GET /track", None)
    /\ IF game = "None"
       THEN \E temp_game \in {__init__(DefaultThreshold)} :
                /\ response' = Respond(200, get_track(temp_game))
                /\ ret' = get_track(temp_game)
                /\ game' = "BuzzWireGame"
                /\ SetSelf(temp_game)
       ELSE /\ response' = Respond(200, get_track(Self))
            /\ ret' = get_track(Self)
            /\ UNCHANGED <<trackVars, sessionVars, game>>
    /\ UNCHANGED <<now, counted_at, threads>>

server_get_track ==
    /\ call' = Called("GET /track", None)
    /\ IF game = "None"
       THEN \E temp_game \in {__init__(DefaultThreshold)} :
                /\ response' = Respond(200, get_track(temp_game))
                /\ ret' = get_track(temp_game)
       ELSE /\ response' = Respond(200, get_track(Self))
            /\ ret' = get_track(Self)
    /\ UNCHANGED <<trackVars, sessionVars, game, now, counted_at, threads>>

(***************************************************************************)
(* GET /state: get_state of server.py.                                     *)
(***************************************************************************)
server_get_state ==
    /\ call' = Called("GET /state", None)
    /\ IF game = "None"
       THEN /\ response' = Respond(400, Error("Game not started"))
            /\ UNCHANGED ret
       ELSE /\ response' = Respond(200, get_state(Self, MinusOne))
            /\ ret' = get_state(Self, MinusOne)
    /\ UNCHANGED <<trackVars, sessionVars, game, now, counted_at, threads>>

(***************************************************************************)
(* POST /reset: reset_game.                                                *)
(***************************************************************************)
reset_game ==
    /\ call' = Called("POST /reset", None)
    /\ IF game = "None"
       THEN /\ response' = Respond(400, Error("Game not started"))
            /\ UNCHANGED <<trackVars, sessionVars, ret, counted_at>>
       ELSE \E started \in {start_game(Self)} :
            /\ SetSelf(started)
            /\ ret' = get_state(started, MinusOne)
            /\ response' = Respond(200, get_state(started, MinusOne))
            /\ counted_at' = None
    /\ UNCHANGED <<game, now, threads>>

(***************************************************************************)
(* GET /health: health_check.                                              *)
(***************************************************************************)
health_check ==
    /\ call' = Called("GET /health", None)
    /\ response' = Respond(200, [kind |-> "health", status |-> "ok"])
    /\ UNCHANGED <<trackVars, sessionVars, game, now, ret, counted_at, threads>>

ServerNext ==
    \/ Tick
    \/ server_start_game
    \/ update_game
    \/ server_get_track
    \/ server_get_state
    \/ reset_game
    \/ health_check

ServerSpec == ServerInit /\ [][ServerNext]_vars

(***************************************************************************)
(* Specification GeomSpec: one call of _point_to_segment_distance on a     *)
(* point and a segment of the fine grid.                                   *)
(***************************************************************************)
Grid == {<<x, y, z>> : x \in 0..GridMax, y \in 0..GridMax, z \in 0..GridMax}

GeomInit ==
    /\ IsSelf(__init__(DefaultThreshold))
    /\ game = "BuzzWireGame"
    /\ now = 0
    /\ \E point \in Grid, seg_start \in Grid, seg_end \in Grid :
           call = [op |-> "_point_to_segment_distance", phase |-> "not_started",
                   input |-> <<point, seg_start, seg_end>>]
    /\ ret = None
    /\ response = NoResponse
    /\ counted_at = None
    /\ threads = NoThreads

CallPointToSegmentDistance ==
    /\ ret = None
    /\ ret' = point_to_segment_distance_in_units(FineEps, call.input[1],
                                                  call.input[2], call.input[3])
    /\ UNCHANGED <<trackVars, sessionVars, game, now, call, response, counted_at,
                   threads>>

GeomNext == CallPointToSegmentDistance

GeomSpec == GeomInit /\ [][GeomNext]_vars

(***************************************************************************)
(* Specification ConcurrentSpec: the Flask development server of app.run   *)
(* hands every request to a thread of its own, and the handlers take no    *)
(* lock, so the statements of update and of start_game on the one global   *)
(* instance interleave.  A thread holds the statement it executes next     *)
(* (pc, named after the line) and the local variables of update.  rose is  *)
(* a history variable: the thread's own write of line 159 turned           *)
(* is_colliding from False to True.  The session was started by POST       *)
(* /start before the first of these requests arrives.                      *)
(***************************************************************************)
Threads == {1, 2}

Idle(served) ==
    [pc |-> "idle", positions |-> EmptyList, first_point |-> Origin,
     min_distance |-> MinusOne, current_time |-> 0, was_colliding |-> FALSE,
     rose |-> FALSE, served |-> served]

ConcurrentInputs == {Flat(PStart), Flat(PFar), Flat(PEnd)}

At(t, line) == threads[t].pc = line

Goto(t, line) == threads' = [threads EXCEPT ![t].pc = line]

Return(t) == threads' = [threads EXCEPT ![t] = Idle(threads[t].served)]

Accepted == threads[1].served + threads[2].served

AllIdle == \A t \in Threads : At(t, "idle")

ConcurrentInit ==
    /\ IsSelf(start_game(__init__(DefaultThreshold)))
    /\ game = "BuzzWireGame"
    /\ now = FirstRequestAt
    /\ call = [op |-> "POST /start", phase |-> "none", input |-> DefaultThreshold]
    /\ ret = None
    /\ response = NoResponse
    /\ counted_at = None
    /\ threads = [t \in Threads |-> Idle(0)]

(***************************************************************************)
(* update_game, line 102, and reset_game, line 166: a thread enters        *)
(* game.update(positions) or game.start_game().                            *)
(***************************************************************************)
accept_update(t) ==
    /\ At(t, "idle")
    /\ Accepted < MaxRequests
    /\ \E positions \in ConcurrentInputs :
           threads' = [threads EXCEPT ![t].pc = "126",
                                      ![t].positions = positions,
                                      ![t].served = @ + 1]
    /\ UNCHANGED <<trackVars, sessionVars, game, now, call, ret, response,
                   counted_at>>

accept_reset(t) ==
    /\ At(t, "idle")
    /\ Accepted < MaxRequests
    /\ threads' = [threads EXCEPT ![t].pc = "87", ![t].served = @ + 1]
    /\ UNCHANGED <<trackVars, sessionVars, game, now, call, ret, response,
                   counted_at>>

(***************************************************************************)
(* BuzzWireGame.update, statement by statement.  Lines 130-135 and 151-154 *)
(* touch only locals and the track, which no request writes.               *)
(***************************************************************************)
update_126(t) ==
    /\ At(t, "126")
    /\ IF early_return(Self)
       THEN Goto(t, "127")
       ELSE threads' = [threads EXCEPT
                           ![t].pc = "138",
                           ![t].positions = Nested(normalize(threads[t].positions)),
                           ![t].first_point =
                               first_point_of(normalize(threads[t].positions))]
    /\ UNCHANGED <<trackVars, sessionVars, game, now, call, ret, response,
                   counted_at>>

update_138(t) ==
    /\ At(t, "138")
    /\ IF timing_started
       THEN Goto(t, "147")
       ELSE IF _is_in_zone(Self, threads[t].first_point, start_zone)
            THEN Goto(t, "140")
            ELSE Goto(t, "144")
    /\ UNCHANGED <<trackVars, sessionVars, game, now, call, ret, response,
                   counted_at>>

update_140(t) ==
    /\ At(t, "140")
    /\ timing_started' = TRUE
    /\ Goto(t, "141")
    /\ UNCHANGED <<trackVars, game_started, game_completed, start_time,
                   elapsed_time, collision_count, is_colliding,
                   last_collision_time, game, now, call, ret, response,
                   counted_at>>

update_141(t) ==
    /\ At(t, "141")
    /\ start_time' = <<now>>
    /\ Goto(t, "144")
    /\ UNCHANGED <<trackVars, game_started, game_completed, timing_started,
                   elapsed_time, collision_count, is_colliding,
                   last_collision_time, game, now, call, ret, response,
                   counted_at>>

update_147(t) ==
    /\ At(t, "147")
    /\ IF truthy(start_time) THEN Goto(t, "148") ELSE Goto(t, "157")
    /\ UNCHANGED <<trackVars, sessionVars, game, now, call, ret, response,
                   counted_at>>

update_148(t) ==
    /\ At(t, "148")
    /\ IF start_time = None
       THEN /\ Return(t)
            /\ UNCHANGED elapsed_time
       ELSE /\ elapsed_time' = now - start_time[1]
            /\ Goto(t, "157")
    /\ UNCHANGED <<trackVars, game_started, game_completed, timing_started,
                   start_time, collision_count, is_colliding,
                   last_collision_time, game, now, call, ret, response,
                   counted_at>>

update_157(t) ==
    /\ At(t, "157")
    /\ threads' = [threads EXCEPT
                       ![t].pc = "158",
                       ![t].min_distance =
                           MinOverPoints(Self, threads[t].positions.nested, 1),
                       ![t].current_time = now]
    /\ UNCHANGED <<trackVars, sessionVars, game, now, call, ret, response,
                   counted_at>>

update_158(t) ==
    /\ At(t, "158")
    /\ threads' = [threads EXCEPT ![t].pc = "159",
                                  ![t].was_colliding = is_colliding]
    /\ UNCHANGED <<trackVars, sessionVars, game, now, call, ret, response,
                   counted_at>>

update_159(t) ==
    /\ At(t, "159")
    /\ is_colliding' = Less(threads[t].min_distance,
                            Sqrt(collision_threshold * collision_threshold, 1))
    /\ threads' = [threads EXCEPT ![t].pc = "162",
                                  ![t].rose = ~is_colliding /\ is_colliding']
    /\ UNCHANGED <<trackVars, game_started, game_completed, timing_started,
                   start_time, elapsed_time, collision_count,
                   last_collision_time, game, now, call, ret, response,
                   counted_at>>

update_162(t) ==
    /\ At(t, "162")
    /\ IF is_colliding /\ ~threads[t].was_colliding
       THEN Goto(t, "163")
       ELSE Goto(t, "168")
    /\ UNCHANGED <<trackVars, sessionVars, game, now, call, ret, response,
                   counted_at>>

update_163(t) ==
    /\ At(t, "163")
    /\ IF threads[t].current_time - last_collision_time > cooldown
       THEN Goto(t, "164")
       ELSE Goto(t, "168")
    /\ UNCHANGED <<trackVars, sessionVars, game, now, call, ret, response,
                   counted_at>>

update_164(t) ==
    /\ At(t, "164")
    /\ collision_count' = collision_count + 1
    /\ counted_at' = <<threads[t].current_time>>
    /\ Goto(t, "165")
    /\ UNCHANGED <<trackVars, game_started, game_completed, timing_started,
                   start_time, elapsed_time, is_colliding,
                   last_collision_time, game, now, call, ret, response>>

update_165(t) ==
    /\ At(t, "165")
    /\ last_collision_time' = threads[t].current_time
    /\ Goto(t, "168")
    /\ UNCHANGED <<trackVars, game_started, game_completed, timing_started,
                   start_time, elapsed_time, collision_count, is_colliding,
                   game, now, call, ret, response, counted_at>>

update_168(t) ==
    /\ At(t, "168")
    /\ IF _is_in_zone(Self, threads[t].first_point, end_zone)
       THEN Goto(t, "169")
       ELSE Goto(t, "172")
    /\ UNCHANGED <<trackVars, sessionVars, game, now, call, ret, response,
                   counted_at>>

update_169(t) ==
    /\ At(t, "169")
    /\ game_completed' = TRUE
    /\ Goto(t, "172")
    /\ UNCHANGED <<trackVars, game_started, timing_started, start_time,
                   elapsed_time, collision_count, is_colliding,
                   last_collision_time, game, now, call, ret, response,
                   counted_at>>

(***************************************************************************)
(* The returns of update, lines 127, 144 and 172, and of reset_game, line  *)
(* 167.  What the handlers answer is the subject of ServerSpec and is not  *)
(* kept here; the TypeError of line 148 ends the request as well.          *)
(***************************************************************************)
update_return(t) ==
    /\ At(t, "127") \/ At(t, "144") \/ At(t, "172")
    /\ Return(t)
    /\ UNCHANGED <<trackVars, sessionVars, game, now, call, ret, response,
                   counted_at>>

reset_game_167(t) ==
    /\ At(t, "167")
    /\ Return(t)
    /\ UNCHANGED <<trackVars, sessionVars, game, now, call, ret, response,
                   counted_at>>

(***************************************************************************)
(* BuzzWireGame.reset and the rest of start_game, statement by statement.  *)
(***************************************************************************)
reset_87(t) ==
    /\ At(t, "87")
    /\ game_started' = FALSE
    /\ Goto(t, "88")
    /\ UNCHANGED <<trackVars, game_completed, timing_started, start_time,
                   elapsed_time, collision_count, is_colliding,
                   last_collision_time, game, now, call, ret, response,
                   counted_at>>

reset_88(t) ==
    /\ At(t, "88")
    /\ game_completed' = FALSE
    /\ Goto(t, "89")
    /\ UNCHANGED <<trackVars, game_started, timing_started, start_time,
                   elapsed_time, collision_count, is_colliding,
                   last_collision_time, game, now, call, ret, response,
                   counted_at>>

reset_89(t) ==
    /\ At(t, "89")
    /\ timing_started' = FALSE
    /\ Goto(t, "90")
    /\ UNCHANGED <<trackVars, game_started, game_completed, start_time,
                   elapsed_time, collision_count, is_colliding,
                   last_collision_time, game, now, call, ret, response,
                   counted_at>>

reset_90(t) ==
    /\ At(t, "90")
    /\ start_time' = None
    /\ Goto(t, "91")
    /\ UNCHANGED <<trackVars, game_started, game_completed, timing_started,
                   elapsed_time, collision_count, is_colliding,
                   last_collision_time, game, now, call, ret, response,
                   counted_at>>

reset_91(t) ==
    /\ At(t, "91")
    /\ elapsed_time' = 0
    /\ Goto(t, "92")
    /\ UNCHANGED <<trackVars, game_started, game_completed, timing_started,
                   start_time, collision_count, is_colliding,
                   last_collision_time, game, now, call, ret, response,
                   counted_at>>

reset_92(t) ==
    /\ At(t, "92")
    /\ collision_count' = 0
    /\ counted_at' = None
    /\ Goto(t, "93")
    /\ UNCHANGED <<trackVars, game_started, game_completed, timing_started,
                   start_time, elapsed_time, is_colliding,
                   last_collision_time, game, now, call, ret, response>>

reset_93(t) ==
    /\ At(t, "93")
    /\ is_colliding' = FALSE
    /\ Goto(t, "94")
    /\ UNCHANGED <<trackVars, game_started, game_completed, timing_started,
                   start_time, elapsed_time, collision_count,
                   last_collision_time, game, now, call, ret, response,
                   counted_at>>

reset_94(t) ==
    /\ At(t, "94")
    /\ last_collision_time' = 0
    /\ Goto(t, "100")
    /\ UNCHANGED <<trackVars, game_started, game_completed, timing_started,
                   start_time, elapsed_time, collision_count, is_colliding,
                   game, now, call, ret, response, counted_at>>

start_game_100(t) ==
    /\ At(t, "100")
    /\ game_started' = TRUE
    /\ Goto(t, "102")
    /\ UNCHANGED <<trackVars, game_completed, timing_started, start_time,
                   elapsed_time, collision_count, is_colliding,
                   last_collision_time, game, now, call, ret, response,
                   counted_at>>

start_game_102(t) ==
    /\ At(t, "102")
    /\ timing_started' = FALSE
    /\ Goto(t, "103")
    /\ UNCHANGED <<trackVars, game_started, game_completed, start_time,
                   elapsed_time, collision_count, is_colliding,
                   last_collision_time, game, now, call, ret, response,
                   counted_at>>

start_game_103(t) ==
    /\ At(t, "103")
    /\ start_time' = None
    /\ Goto(t, "167")
    /\ UNCHANGED <<trackVars, game_started, game_completed, timing_started,
                   elapsed_time, collision_count, is_colliding,
                   last_collision_time, game, now, call, ret, response,
                   counted_at>>

ConcurrentTick ==
    /\ now < FirstRequestAt + MaxDrift
    /\ now' = now + 1
    /\ UNCHANGED <<trackVars, sessionVars, game, call, ret, response, counted_at,
                   threads>>

ConcurrentNext ==
    \/ ConcurrentTick
    \/ \E t \in Threads : accept_update(t)
    \/ \E t \in Threads : accept_reset(t)
    \/ \E t \in Threads : update_126(t)
    \/ \E t \in Threads : update_138(t)
    \/ \E t \in Threads : update_140(t)
    \/ \E t \in Threads : update_141(t)
    \/ \E t \in Threads : update_147(t)
    \/ \E t \in Threads : update_148(t)
    \/ \E t \in Threads : update_157(t)
    \/ \E t \in Threads : update_158(t)
    \/ \E t \in Threads : update_159(t)
    \/ \E t \in Threads : update_162(t)
    \/ \E t \in Threads : update_163(t)
    \/ \E t \in Threads : update_164(t)
    \/ \E t \in Threads : update_165(t)
    \/ \E t \in Threads : update_168(t)
    \/ \E t \in Threads : update_169(t)
    \/ \E t \in Threads : update_return(t)
    \/ \E t \in Threads : reset_87(t)
    \/ \E t \in Threads : reset_88(t)
    \/ \E t \in Threads : reset_89(t)
    \/ \E t \in Threads : reset_90(t)
    \/ \E t \in Threads : reset_91(t)
    \/ \E t \in Threads : reset_92(t)
    \/ \E t \in Threads : reset_93(t)
    \/ \E t \in Threads : reset_94(t)
    \/ \E t \in Threads : start_game_100(t)
    \/ \E t \in Threads : start_game_102(t)
    \/ \E t \in Threads : start_game_103(t)
    \/ \E t \in Threads : reset_game_167(t)

ConcurrentSpec == ConcurrentInit /\ [][ConcurrentNext]_vars

(***************************************************************************)
(* Vocabulary of the properties.                                           *)
(***************************************************************************)
SessionBoundary == {"__init__", "reset", "start_game"}

DistanceSquared(p, q) ==
    (p[1] - q[1]) * (p[1] - q[1]) + (p[2] - q[2]) * (p[2] - q[2])
        + (p[3] - q[3]) * (p[3] - q[3])

\* The primary point of an input lies strictly inside the ball of radius
\* 0.1 m around the first track point.
PrimaryInsideStartZone(positions) ==
    /\ positions.shape # "scalar"
    /\ LET primary == first_point_of(normalize(positions))
       IN  /\ Len(primary) >= 3
           /\ DistanceSquared(primary, _define_track[1]) < ZoneRadius * ZoneRadius

(***************************************************************************)
(* C1.  In every reachable state, game_completed implies game_started and  *)
(* timing_started.                                                         *)
(***************************************************************************)
C1_CompletedImpliesStartedAndTiming ==
    game_completed => (game_started /\ timing_started)

C1_Witness ==
    /\ game_completed
    /\ call.op = "update"
    /\ call.phase = "timing"

(***************************************************************************)
(* C2.  An update called while the game is not started or already          *)
(* completed changes no session field, whatever the input, and returns a   *)
(* snapshot whose distance_to_track is -1.                                 *)
(***************************************************************************)
C2_UpdateOutsideGameIsNoOp ==
    [][(call'.op = "update" /\ (~game_started \/ game_completed))
        => /\ UNCHANGED sessionVars
           /\ ret'.kind = "state"
           /\ ret'.distance_to_track = MinusOne]_vars

C2_Witness ==
    /\ call.op = "update"
    /\ call.phase = "completed"
    /\ call.input = Scalar
    /\ ret.kind = "state"

(***************************************************************************)
(* C3.  Once game_completed is true, it stays true and elapsed_time and    *)
(* collision_count keep their values through every update and every tick   *)
(* of the clock, until start_game, reset or a new construction.            *)
(***************************************************************************)
C3_FrozenAfterCompletion ==
    [][(game_completed /\ call'.op \notin SessionBoundary)
        => /\ game_completed'
           /\ elapsed_time' = elapsed_time
           /\ collision_count' = collision_count]_vars

C3_Witness ==
    /\ game_completed
    /\ call.op = "update"
    /\ call.phase = "completed"
    /\ call.input = Flat(PStartNear)
    /\ start_time # None
    /\ now - start_time[1] > elapsed_time

(***************************************************************************)
(* C4.  timing_started goes from false to true, and start_time is written, *)
(* only in an update of the arming phase whose primary point is strictly   *)
(* inside the start zone, and the first such update does it; afterwards    *)
(* start_time changes only at start_game, reset or construction.           *)
(***************************************************************************)
C4_TimerArmedOnce ==
    [][/\ (start_time' # start_time \/ (~timing_started /\ timing_started'))
          => \/ /\ call'.op \in SessionBoundary
                /\ start_time' = None
                /\ ~timing_started'
             \/ /\ call'.op = "update"
                /\ game_started /\ ~game_completed /\ ~timing_started
                /\ timing_started'
                /\ start_time = None
                /\ start_time' = <<now>>
                /\ PrimaryInsideStartZone(call'.input)
       /\ (/\ call'.op = "update"
           /\ game_started /\ ~game_completed /\ ~timing_started
           /\ PrimaryInsideStartZone(call'.input))
          => (timing_started' /\ start_time' = <<now>>)]_vars

C4_Witness ==
    /\ call.op = "update"
    /\ call.phase = "timing"
    /\ PrimaryInsideStartZone(call.input)
    /\ timing_started
    /\ start_time # None
    /\ start_time[1] < now

(***************************************************************************)
(* C5.  Two updates of one session that each increment collision_count are *)
(* more than cooldown apart on the clock.                                  *)
(***************************************************************************)
C5_IncrementsSpacedByCooldown ==
    [][(collision_count' > collision_count /\ counted_at # None
            /\ call'.op \notin SessionBoundary)
        => now' - counted_at[1] > cooldown]_vars

C5_Witness ==
    /\ call.op = "update"
    /\ collision_count >= 2
    /\ counted_at = <<now>>

(***************************************************************************)
(* C6.  Within a session collision_count never decreases, grows by at most *)
(* one per step, and grows only in an update of the timing phase in which  *)
(* is_colliding goes from false to true.                                   *)
(***************************************************************************)
C6_CountOnlyOnRisingEdge ==
    [][call'.op \notin SessionBoundary
        => /\ collision_count' \in {collision_count, collision_count + 1}
           /\ collision_count' # collision_count
                => /\ call'.op = "update"
                   /\ game_started /\ timing_started /\ ~game_completed
                   /\ ~is_colliding
                   /\ is_colliding']_vars

C6_Witness ==
    /\ call.op = "update"
    /\ call.phase = "timing"
    /\ collision_count = 1
    /\ is_colliding
    /\ counted_at = <<now>>

(***************************************************************************)
(* C7.  start_game, from any state, leaves the session as: started, not    *)
(* completed, not timing, start_time unset, elapsed_time 0,                *)
(* collision_count 0, not colliding, last_collision_time 0; and it leaves  *)
(* the track, the zones, the radius and the threshold unchanged.           *)
(***************************************************************************)
C7_StartGameIsFullReset ==
    [][call'.op = "start_game"
        => /\ game_started'
           /\ ~game_completed'
           /\ ~timing_started'
           /\ start_time' = None
           /\ elapsed_time' = 0
           /\ collision_count' = 0
           /\ ~is_colliding'
           /\ last_collision_time' = 0
           /\ UNCHANGED trackVars]_vars

C7_Witness ==
    /\ call.op = "start_game"
    /\ call.phase = "completed"
    /\ game_started
    /\ collision_count = 0

(***************************************************************************)
(* C8.  An update in the arming phase, the arming one included, leaves     *)
(* is_colliding, collision_count, last_collision_time and elapsed_time     *)
(* unchanged and game_completed false, and a snapshot it returns has       *)
(* distance_to_track -1.                                                   *)
(***************************************************************************)
C8_NoCollisionWorkWhileArming ==
    [][(call'.op = "update" /\ game_started /\ ~game_completed /\ ~timing_started)
        => /\ is_colliding' = is_colliding
           /\ collision_count' = collision_count
           /\ last_collision_time' = last_collision_time
           /\ elapsed_time' = elapsed_time
           /\ ~game_completed'
           /\ ret'.kind = "state" => ret'.distance_to_track = MinusOne]_vars

C8_Witness ==
    /\ call.op = "update"
    /\ call.phase = "armed"
    /\ call.input = Flat(PStart)
    /\ timing_started
    /\ ~is_colliding
    /\ ret.kind = "state"
    /\ ret.distance_to_track = MinusOne

(***************************************************************************)
(* C9.  While the server holds no session (game is None): POST /update,    *)
(* GET /state and POST /reset answer 400 'Game not started' and leave game *)
(* None; GET /track answers 200 with the track descriptor of a             *)
(* default-threshold instance and leaves game None; only POST /start       *)
(* creates the session.                                                    *)
(***************************************************************************)
C9_NoSessionPrecondition ==
    [][game = "None"
        => /\ call'.op \in {"POST /update", "GET /state", "POST /reset"}
                => /\ response' = [status |-> 400,
                                   body |-> [kind |-> "error",
                                             error |-> "Game not started"]]
                   /\ game' = "None"
                   /\ UNCHANGED <<trackVars, sessionVars>>
           /\ call'.op = "GET /track"
                => /\ response'.status = 200
                   /\ response'.body.kind = "track"
                   /\ response'.body.collision_threshold = DefaultThreshold
                   /\ response'.body.track_points = _define_track
                   /\ response'.body.start_zone = _define_track[1]
                   /\ response'.body.end_zone = _define_track[Len(_define_track)]
                   /\ response'.body.zone_radius = ZoneRadius
                   /\ game' = "None"
                   /\ UNCHANGED <<trackVars, sessionVars>>
           /\ game' # "None" => call'.op = "POST /start"]_vars

C9_Witness ==
    /\ game = "None"
    /\ call.op = "GET /track"
    /\ response.status = 200
    /\ response.body.kind = "track"

(***************************************************************************)
(* C10.  POST /update never fails on malformed geometric input: for a      *)
(* wrong-shaped single position, a point of wrong arity inside a positions *)
(* list, or an empty positions list, the answer is the snapshot, and the   *)
(* session is left in the state, that an update with the origin as its one *)
(* point gives.                                                            *)
(***************************************************************************)
MalformedBody(data) ==
    \/ /\ data.key = "position"
       /\ ~(data.value.shape = "flat" /\ Len(data.value.flat) = 3)
    \/ /\ data.key = "positions"
       /\ data.value.shape = "nested"
       /\ \/ data.value = EmptyList
          \/ \E i \in 1..Len(data.value.nested) : Len(data.value.nested[i]) # 3

C10_MalformedInputFallsBackToOrigin ==
    [][(call'.op = "POST /update" /\ game # "None" /\ MalformedBody(call'.input))
        => \E drift \in 0..MaxDrift :
              \E expected \in {update(Self, Nested(<<Origin>>), now, now + drift)} :
                 /\ response' = [status |-> 200, body |-> expected.ret]
                 /\ Self' = expected.self]_vars

(***************************************************************************)
(* Vocabulary of the properties on multi-point inputs.                     *)
(***************************************************************************)
\* The input is a non-empty list of three-valued points.
ListOfPoints(positions) ==
    /\ positions.shape = "nested"
    /\ Len(positions.nested) > 0
    /\ \A i \in 1..Len(positions.nested) : Len(positions.nested[i]) = 3

\* Some supplied point is closer to the track than threshold (squared
\* distances n/d against threshold^2).
SomePointTouches(positions, threshold) ==
    \E i \in 1..Len(positions.nested) :
        LET distance == MinOverSegments(_define_track, positions.nested[i], 1)
        IN  distance[1] < threshold * threshold * distance[2]

InsideEndZone(point) ==
    DistanceSquared(point, _define_track[Len(_define_track)]) < ZoneRadius * ZoneRadius

(***************************************************************************)
(* C12.  In the timing phase, after an update with a list of points,       *)
(* is_colliding is true iff some supplied point is closer to the track     *)
(* than collision_threshold; game_completed is decided by the first point  *)
(* alone, so a later point inside the end zone does not complete the game  *)
(* when the first point is outside it.                                     *)
(***************************************************************************)
C12_AnyPointCollidesFirstPointDecidesZone ==
    [][(/\ call'.op = "update"
        /\ game_started /\ timing_started /\ ~game_completed
        /\ ListOfPoints(call'.input))
        => /\ is_colliding' = SomePointTouches(call'.input, collision_threshold)
           /\ game_completed' = InsideEndZone(call'.input.nested[1])]_vars

C12_Witness ==
    /\ call.op = "update"
    /\ call.phase = "timing"
    /\ call.input = Nested(<<PFar, PEnd>>)
    /\ is_colliding
    /\ ~game_completed

(***************************************************************************)
(* Vocabulary: the points update works on, written out from the input.     *)
(***************************************************************************)
\* The input is one three-valued point or a non-empty list of such points.
ThreeValuedPoints(positions) ==
    \/ positions.shape = "flat" /\ Len(positions.flat) = 3
    \/ ListOfPoints(positions)

PrimaryPoint(positions) ==
    IF positions.shape = "flat" THEN positions.flat ELSE positions.nested[1]

(***************************************************************************)
(* C13.  In the timing phase an update whose primary point is strictly     *)
(* inside the end zone sets game_completed in that update, after the       *)
(* elapsed time was recomputed (elapsed_time = now - start_time, now being *)
(* a clock reading taken during the update) and the collision counted: a   *)
(* rising edge of is_colliding outside the cooldown in that update is in   *)
(* the frozen collision_count.                                             *)
(***************************************************************************)
C13_CompletionAfterTimeAndCount ==
    [][(/\ call'.op = "update"
        /\ game_started /\ timing_started /\ ~game_completed
        /\ ThreeValuedPoints(call'.input)
        /\ InsideEndZone(PrimaryPoint(call'.input)))
        => /\ game_completed'
           /\ elapsed_time' \in (now - start_time[1])..(now' - start_time[1])
           /\ (~is_colliding /\ is_colliding' /\ now' - last_collision_time > cooldown)
                => collision_count' = collision_count + 1]_vars

(***************************************************************************)
(* C15.  Every update executed in the timing phase sets                    *)
(* elapsed_time = now - start_time, now being a clock reading taken during *)
(* the update, whatever the reading recorded at arming (0 included); so    *)
(* elapsed_time is never stale and never negative.                         *)
(***************************************************************************)
C15_ElapsedRecomputedEveryTimingUpdate ==
    [][(/\ call'.op = "update"
        /\ game_started /\ timing_started /\ ~game_completed
        /\ call'.input.shape # "scalar")
        => /\ elapsed_time' \in (now - start_time[1])..(now' - start_time[1])
           /\ elapsed_time' >= 0]_vars

(***************************************************************************)
(* C14.  In the timing phase a rising edge of is_colliding at clock        *)
(* reading t increments collision_count iff t - last_collision_time is     *)
(* more than cooldown, and only then is last_collision_time written (to    *)
(* t); an update that finds the flag already set counts nothing and        *)
(* leaves last_collision_time alone, so a held collision is counted at     *)
(* most once and a suppressed edge is never counted later.                 *)
(***************************************************************************)
C14_CooldownFromLastCountedCollision ==
    [][(call'.op = "update" /\ game_started /\ timing_started /\ ~game_completed)
        => /\ (~is_colliding /\ is_colliding')
                => IF now' - last_collision_time > cooldown
                   THEN /\ collision_count' = collision_count + 1
                        /\ last_collision_time' = now'
                   ELSE /\ collision_count' = collision_count
                        /\ last_collision_time' = last_collision_time
           /\ is_colliding
                => /\ collision_count' = collision_count
                   /\ last_collision_time' = last_collision_time]_vars

C14_Witness ==
    /\ call.op = "update"
    /\ call.phase = "timing"
    /\ is_colliding
    /\ collision_count = 0
    /\ last_collision_time = 0
    /\ now > cooldown

(***************************************************************************)
(* C16.  get_state and get_track change no field of the instance in any    *)
(* phase; nothing but a construction changes the track, zone, radius and   *)
(* threshold fields, and get_track returns them (the track of              *)
(* _define_track, its first and last point, radius 0.1); a standalone      *)
(* get_state reports distance_to_track -1 and every other field as it      *)
(* stands (elapsed_time in hundredths of a second).                        *)
(***************************************************************************)
C16_ReadsArePure ==
    [][/\ call'.op \in {"get_state", "get_track"}
            => UNCHANGED <<trackVars, sessionVars, now>>
       /\ call'.op # "__init__" => UNCHANGED trackVars
       /\ call'.op = "get_state"
            => ret' = [kind |-> "state",
                       game_started |-> game_started,
                       game_completed |-> game_completed,
                       timing_started |-> timing_started,
                       elapsed_time |-> 25 * elapsed_time,
                       collision_count |-> collision_count,
                       is_colliding |-> is_colliding,
                       distance_to_track |-> <<-1, 1>>,
                       collision_threshold |-> collision_threshold]
       /\ call'.op = "get_track"
            => ret' = [kind |-> "track",
                       track_points |-> _define_track,
                       start_zone |-> _define_track[1],
                       end_zone |-> _define_track[Len(_define_track)],
                       zone_radius |-> ZoneRadius,
                       collision_threshold |-> collision_threshold]]_vars

C16_Witness ==
    /\ call.op = "get_state"
    /\ call.phase = "timing"
    /\ is_colliding
    /\ elapsed_time > 0
    /\ ret.kind = "state"
    /\ ret.is_colliding
    /\ ret.distance_to_track = MinusOne

(***************************************************************************)
(* C18.  update moves the phase not-started -> armed -> timing ->          *)
(* completed forward by at most one per call: it never changes             *)
(* game_started, never clears timing_started or game_completed, and never  *)
(* arms and completes in one call; the phase goes backwards only at        *)
(* start_game, reset or construction.                                      *)
(***************************************************************************)
PhaseRank ==
    IF game_completed THEN 3
    ELSE IF timing_started THEN 2
    ELSE IF game_started THEN 1
    ELSE 0

C18_PhaseMovesForwardOneStep ==
    [][/\ call'.op = "update"
            => /\ PhaseRank' \in {PhaseRank, PhaseRank + 1}
               /\ game_started' = game_started
               /\ timing_started => timing_started'
               /\ game_completed => game_completed'
       /\ PhaseRank' < PhaseRank => call'.op \in SessionBoundary]_vars

C18_Witness ==
    /\ call.op = "update"
    /\ call.phase = "timing"
    /\ game_completed
    /\ start_time = <<now>>

(***************************************************************************)
(* C19.  start_game sets last_collision_time to 0, so the cooldown of one  *)
(* session does not reach into the next: while collision_count is 0, a     *)
(* rising edge of is_colliding at a clock reading above cooldown is        *)
(* counted, however recently the previous session counted a collision.     *)
(***************************************************************************)
C19_CooldownDoesNotCarryOver ==
    [][/\ call'.op = "start_game" => last_collision_time' = 0
       /\ (/\ call'.op = "update"
           /\ collision_count = 0
           /\ ~is_colliding /\ is_colliding'
           /\ now' > cooldown)
          => /\ collision_count' = 1
             /\ last_collision_time' = now']_vars

C19_Witness ==
    /\ call.op = "update"
    /\ collision_count = 1
    /\ counted_at = <<now>>
    /\ start_time # None
    /\ start_time[1] > cooldown
    /\ elapsed_time = 0

(***************************************************************************)
(* C17.  For a segment with seg_start # seg_end,                           *)
(* _point_to_segment_distance returns 0 exactly when the point lies on the *)
(* segment, also when the squared length of the segment is below 1e-10.    *)
(***************************************************************************)
Cross(a, b) ==
    <<a[2] * b[3] - a[3] * b[2], a[3] * b[1] - a[1] * b[3], a[1] * b[2] - a[2] * b[1]>>

OnSegment(point, seg_start, seg_end) ==
    LET v == Sub(seg_end, seg_start)
        w == Sub(point, seg_start)
    IN  /\ Cross(w, v) = Origin
        /\ 0 <= Dot(w, v)
        /\ Dot(w, v) <= Dot(v, v)

C17_ZeroExactlyOnSegment ==
    (/\ call.op = "_point_to_segment_distance"
     /\ ret # None
     /\ call.input[2] # call.input[3])
    => (ret = <<0, 1>> <=> OnSegment(call.input[1], call.input[2], call.input[3]))

(***************************************************************************)
(* C11.  Overlapping requests on the shared session behave as if they were *)
(* taken one at a time: collision_count is incremented only by the request *)
(* whose own write made is_colliding rise, never within cooldown of the    *)
(* latest counted collision of the session, and start_time is written only *)
(* while it is None, that is at most once per session.                     *)
(***************************************************************************)
Executes(t, line) == threads[t].pc = line /\ threads'[t].pc # line

C11_OverlappingUpdatesSerialized ==
    [][\A t \in Threads :
           /\ Executes(t, "164")
              => /\ threads[t].rose
                 /\ counted_at # None
                    => threads[t].current_time - counted_at[1] > cooldown
           /\ Executes(t, "141") => start_time = None]_vars

(***************************************************************************)
(* C20.  When start_game and update overlap statement by statement, the    *)
(* session they leave behind once every request has returned is one that   *)
(* requests taken one after the other can leave: a completed game was      *)
(* started and timed, and a game that waits for the start zone has every   *)
(* session field as start_game leaves it.                                  *)
(***************************************************************************)
C20_ResetOverlappingUpdateLeavesSerialState ==
    AllIdle
    => /\ game_completed => game_started /\ timing_started
       /\ game_started /\ ~timing_started => Self = start_game(Self)

====
